---- MODULE Spec2Model ----
(***************************************************************************)
(* Model of src/main.py: the memoised query-and-resample pipeline          *)
(* (get_db_data, wrapped in functools.lru_cache) and the three chart       *)
(* endpoints /viz/energy, /viz/cost and /viz/summary.                      *)
(*                                                                         *)
(* Time is counted in ticks, TicksPerHour ticks to the hour and            *)
(* HoursPerDay hours to the day.  Numbers are exact rationals <<n, d>>     *)
(* in lowest terms; <<0, 0>> is the missing numeric value (NaN) and the    *)
(* string "NaN" the missing categorical value.  The columns of the store   *)
(* are taken to hold no NULL.  The pandas calls of get_db_data are         *)
(* modelled by what they compute: resample('h').mean() bins by hour,       *)
(* resample('h').ffill() reindexes onto the hour labels (or relabels the   *)
(* rows when they are already hourly), mode() sorts and drops missing      *)
(* values.  Requests are handled one at a time: the handlers never await.  *)
(***************************************************************************)
EXTENDS Integers, Sequences, FiniteSets, TLC

VARIABLES
    cache,        \* lru_cache of get_db_data: <<[key, df]>>, least recently used first
    insertOrder,  \* history: the keys now in the cache, oldest insertion first
    useOrder,     \* history: the keys now in the cache, least recent use first
    resp,         \* the last request and the response the caller received
    records,      \* the rows a query returned (resampler runs)
    pc,           \* position of a resampler run
    table,        \* what the try-block of get_db_data produced for records
    daily         \* what energy_cost plots for that table

vars == <<cache, insertOrder, useOrder, resp, records, pc, table, daily>>

\* ------------------------------------------------------------------ bounds
TicksPerHour == 2
HoursPerDay == 2
MaxTick == 7
MaxRecords == 3
NumOrgs == 2
\* capacity of the memoisation table, scaled down from lru_cache(maxsize=32)
maxsize == 2

Ticks == 0..MaxTick

\* ------------------------------------------------------------ exact numbers
RECURSIVE GCD(_, _)
GCD(a, b) == IF b = 0 THEN a ELSE GCD(b, a % b)

NaN == <<0, 0>>
IsNaN(x) == x[2] = 0
Rat(n, d) == LET g == GCD(n, d) IN <<n \div g, d \div g>>
Num(n) == <<n, 1>>
RatAdd(a, b) == Rat(a[1] * b[2] + b[1] * a[2], a[2] * b[2])

\* ------------------------------------------------------------------- time
HourOf(ts) == ts \div TicksPerHour
HourStart(h) == h * TicksPerHour
DayOf(ts) == ts \div (TicksPerHour * HoursPerDay)

\* ------------------------------------------------- the rows a query returns
\* (energy_kwh, cost, source, org_name) of a stored row
Reading1 == [energy_kwh |-> 2, cost |-> 3, source |-> "solar", org_name |-> "Acme"]
Reading2 == [energy_kwh |-> 4, cost |-> 5, source |-> "solar", org_name |-> "Acme"]
Reading3 == [energy_kwh |-> 4, cost |-> 3, source |-> "grid", org_name |-> "Acme"]
Reading4 == [energy_kwh |-> 2, cost |-> 5, source |-> "grid", org_name |-> "ACME"]
Readings == {Reading1, Reading2, Reading3, Reading4}

\* the org_name values in ascending (string) order, as Series.mode sorts them
NameOrder == <<"ACME", "Acme">>

Row(ts, rd) ==
    [start_time |-> ts, energy_kwh |-> rd.energy_kwh, cost |-> rd.cost,
     source |-> rd.source, org_name |-> rd.org_name]

\* ORDER BY ec.start_time: rows come in ascending timestamp order
SortedTimes(n) ==
    { t \in [1..n -> Ticks] : \A i \in 1..(n - 1) : t[i] <= t[i + 1] }

\* the rows pd.read_sql returns for timestamps t and readings v
QueryResult(t, v) == [i \in DOMAIN t |-> Row(t[i], v[i])]

\* ------------------------------------------------------------ the resampler
RECURSIVE SumOf(_, _)
SumOf(rows, col) ==
    IF rows = <<>> THEN 0 ELSE Head(rows)[col] + SumOf(Tail(rows), col)

\* the rows of df whose timestamp falls in hour h
InHour(df, h) == SelectSeq(df, LAMBDA r : HourOf(r.start_time) = h)

\* variant: the bin's total in place of its mean
MeanOfAsSum(rows, col) ==
    IF rows = <<>> THEN NaN ELSE Rat(SumOf(rows, col), 1)

\* .mean() of one column over one bin; NaN for an empty bin
MeanOf(rows, col) ==
    IF rows = <<>> THEN NaN ELSE Rat(SumOf(rows, col), Len(rows))

FirstHour(df) == HourOf(df[1].start_time)
LastHour(df) == HourOf(df[Len(df)].start_time)
NumBins(df) == LastHour(df) - FirstHour(df) + 1

\* df[numeric_cols].resample('h').mean()
NumericDf(df) ==
    [i \in 1..NumBins(df) |->
        LET h == FirstHour(df) + i - 1 IN
        [start_time |-> HourStart(h),
         energy_kwh |-> MeanOf(InHour(df, h), "energy_kwh"),
         cost       |-> MeanOf(InHour(df, h), "cost")]]

HasDuplicateIndex(df) ==
    \E i \in 1..(Len(df) - 1) : df[i].start_time = df[i + 1].start_time

\* DatetimeIndex.inferred_freq == 'h': at least three timestamps, each one
\* hour after the one before
InferredFreqHourly(df) ==
    /\ Len(df) >= 3
    /\ \A i \in 1..(Len(df) - 1) :
          df[i + 1].start_time - df[i].start_time = TicksPerHour

\* index of the last row of df at or before tick t; 0 when there is none
LastAtOrBefore(df, t) ==
    LET S == { i \in 1..Len(df) : df[i].start_time <= t } IN
    IF S = {} THEN 0 ELSE CHOOSE i \in S : \A j \in S : j <= i

\* obj.reindex(res_index, method='ffill')
ReindexFfill(df) ==
    [i \in 1..NumBins(df) |->
        LET k == LastAtOrBefore(df, HourStart(FirstHour(df) + i - 1)) IN
        IF k = 0 THEN [source |-> "NaN", org_name |-> "NaN"]
        ELSE [source |-> df[k].source, org_name |-> df[k].org_name]]

\* result = obj.copy(); result.index = res_index
EqualSampling(df) ==
    [i \in 1..NumBins(df) |->
        [source |-> df[i].source, org_name |-> df[i].org_name]]

\* df[categorical_cols].resample('h').ffill()
CategoricalDf(df) ==
    IF InferredFreqHourly(df) /\ Len(df) = NumBins(df)
    THEN [ok |-> TRUE, rows |-> EqualSampling(df)]
    ELSE IF HasDuplicateIndex(df)
    THEN [ok |-> FALSE,
          err |-> "cannot reindex a non-unique index with a method or limit"]
    ELSE [ok |-> TRUE, rows |-> ReindexFfill(df)]

\* pd.concat([numeric_df, categorical_df], axis=1).reset_index()
Concat(num, cat) ==
    [i \in 1..Len(num) |->
        [start_time |-> num[i].start_time,
         energy_kwh |-> num[i].energy_kwh,
         cost       |-> num[i].cost,
         source     |-> cat[i].source,
         org_name   |-> cat[i].org_name]]

FillNum(x, prev) == IF IsNaN(x) THEN prev ELSE x
FillCat(x, prev) == IF x = "NaN" THEN prev ELSE x

\* df.ffill(): every missing cell takes the value of the row above
RECURSIVE Ffill(_)
Ffill(rows) ==
    IF Len(rows) <= 1 THEN rows
    ELSE LET done == Ffill(SubSeq(rows, 1, Len(rows) - 1))
             prev == done[Len(done)]
             r    == rows[Len(rows)]
         IN Append(done,
                [start_time |-> r.start_time,
                 energy_kwh |-> FillNum(r.energy_kwh, prev.energy_kwh),
                 cost       |-> FillNum(r.cost, prev.cost),
                 source     |-> FillCat(r.source, prev.source),
                 org_name   |-> FillCat(r.org_name, prev.org_name)])

CountName(rows, nm) == Cardinality({ i \in 1..Len(rows) : rows[i].org_name = nm })

\* df['org_name'].mode(): the most frequent non-missing names, ascending
Mode(rows) ==
    LET best == CHOOSE c \in 0..Len(rows) :
                    /\ \A i \in 1..Len(NameOrder) : CountName(rows, NameOrder[i]) <= c
                    /\ \/ c = 0
                       \/ \E i \in 1..Len(NameOrder) : CountName(rows, NameOrder[i]) = c
    IN IF best = 0 THEN <<>>
       ELSE SelectSeq(NameOrder, LAMBDA nm : CountName(rows, nm) = best)

SetOrgName(rows, nm) ==
    [i \in 1..Len(rows) |-> [rows[i] EXCEPT !.org_name = nm]]

\* lines 57-71 of get_db_data, applied to the rows read_sql returned:
\* [ok |-> TRUE, df] when the block returns, [ok |-> FALSE, err] when it raises
ResampleDf(df) ==
    IF df = <<>> THEN [ok |-> TRUE, df |-> <<>>]
    ELSE LET cat == CategoricalDf(df) IN
         IF ~cat.ok THEN [ok |-> FALSE, err |-> cat.err]
         ELSE LET filled == Ffill(Concat(NumericDf(df), cat.rows))
                  mode   == Mode(filled)
              IN IF mode = <<>> THEN [ok |-> FALSE, err |-> "0"]
                 ELSE [ok |-> TRUE, df |-> SetOrgName(filled, mode[1])]

\* energy_cost: df.groupby([Grouper(key='start_time', freq='D'), 'source'])
\* ['cost'].sum(); rows whose source is missing belong to no group
GroupRows(df, day, src) ==
    SelectSeq(df, LAMBDA r : DayOf(r.start_time) = day /\ r.source = src)

RECURSIVE SumCost(_)
SumCost(rows) ==
    IF rows = <<>> THEN Num(0) ELSE RatAdd(Head(rows).cost, SumCost(Tail(rows)))

DailyCost(df) ==
    { [start_time |-> DayOf(df[i].start_time), source |-> df[i].source,
       cost |-> SumCost(GroupRows(df, DayOf(df[i].start_time), df[i].source))] :
      i \in { j \in 1..Len(df) : df[j].source # "NaN" } }

\* --------------------------------------------------- resampler runs
\* before the first request
NoRequest ==
    [endpoint |-> "none", org |-> 0, key |-> [type |-> "none", id |-> 0],
     queried |-> 0, evicted |-> {}, oldest |-> [type |-> "none", id |-> 0], raised |-> FALSE, cause |-> "none",
     status |-> 0, detail |-> <<>>, title |-> <<>>, df |-> <<>>, data |-> {}]

NotRun == [ok |-> FALSE, err |-> "not run"]

InitResample ==
    /\ \E n \in 0..MaxRecords : \E t \in SortedTimes(n) : \E v \in [1..n -> Readings] :
          records = QueryResult(t, v)
    /\ pc = "fetched"
    /\ table = NotRun
    /\ daily = {}
    /\ cache = <<>>
    /\ insertOrder = <<>>
    /\ useOrder = <<>>
    /\ resp = NoRequest

Resample ==
    /\ pc = "fetched"
    /\ table' = ResampleDf(records)
    /\ pc' = "resampled"
    /\ UNCHANGED <<records, daily, cache, insertOrder, useOrder, resp>>

Aggregate ==
    /\ pc = "resampled"
    /\ table.ok
    /\ daily' = DailyCost(table.df)
    /\ pc' = "plotted"
    /\ UNCHANGED <<records, table, cache, insertOrder, useOrder, resp>>

NextResample == Resample \/ Aggregate

SpecResample == InitResample /\ [][NextResample]_vars

\* ----------------------------------------------------------------- the server
OrgIds == 1..NumOrgs

\* the org_id a handler passes on: the path text where the parameter is not
\* annotated (energy_consumption, energy_cost), an int where it is (energy_summary)
StrKey(org) == [type |-> "str", id |-> org]
IntKey(org) == [type |-> "int", id |-> org]

\* str(org_id) as it stands in the request path
PathText(org) == ToString(org)

\* what the query of one request can come back with: the store is down or
\* rejects the query, or it returns the rows now stored for the organization
StoredRows ==
    { <<>>,
      QueryResult(<<0, 1 + TicksPerHour>>, <<Reading1, Reading3>>),
      QueryResult(<<1>>, <<Reading4>>) }

Fetches ==
    { [up |-> FALSE, err |-> "connection refused"] } \cup
    { [up |-> TRUE, rows |-> d] : d \in StoredRows }

HTTPException(status_code, detail) ==
    [status_code |-> status_code, detail |-> detail]

\* str(e) of an HTTPException: "<status_code>: <detail>"
StrOfHTTPException(e) == <<ToString(e.status_code), ": ">> \o e.detail

Keys(c) == { c[i].key : i \in 1..Len(c) }
CacheIndex(c, key) ==
    IF key \in Keys(c) THEN CHOOSE i \in 1..Len(c) : c[i].key = key ELSE 0

\* variant: a hit leaves the order alone (first in, first out)
CacheHitNoMove(c, i) == c

\* a hit moves the entry to the most-recently-used end
CacheHit(c, i) ==
    SubSeq(c, 1, i - 1) \o SubSeq(c, i + 1, Len(c)) \o <<c[i]>>

\* a new entry goes to the most-recently-used end; a full cache first drops
\* the entry at the least-recently-used end
CacheInsert(c, key, df) ==
    LET e == [key |-> key, df |-> df] IN
    IF Len(c) >= maxsize THEN Append(Tail(c), e) ELSE Append(c, e)

\* the body of get_db_data (lines 32-74) for one query outcome
FetchAndResample(fetch) ==
    IF ~fetch.up
    THEN [raised |-> TRUE, cause |-> "store",
          exc |-> HTTPException(500, <<"Database error: ", fetch.err>>)]
    ELSE LET r == ResampleDf(fetch.rows) IN
         IF r.ok THEN [raised |-> FALSE, cause |-> "none", df |-> r.df]
         ELSE [raised |-> TRUE, cause |-> "resample",
               exc |-> HTTPException(500, <<"Database error: ", r.err>>)]

\* every way the body of get_db_data can end
Outcomes == { FetchAndResample(f) : f \in Fetches }

\* variant: a call whose body raises is remembered as an empty table
get_db_data_CachingFailure(c, key, r) ==
    LET i == CacheIndex(c, key) IN
    IF i # 0
    THEN [raised |-> FALSE, cause |-> "none", df |-> c[i].df,
          cache |-> CacheHit(c, i), queried |-> 0]
    ELSE IF r.raised
         THEN [raised |-> TRUE, cause |-> r.cause, exc |-> r.exc,
               cache |-> CacheInsert(c, key, <<>>), queried |-> 1]
         ELSE [raised |-> FALSE, cause |-> "none", df |-> r.df,
               cache |-> CacheInsert(c, key, r.df), queried |-> 1]

\* get_db_data(org_id) through lru_cache, r being how the body ends when it
\* runs: the outcome of the call, the cache after it and the number of
\* queries it sent to the store
get_db_data(c, key, r) ==
    LET i == CacheIndex(c, key) IN
    IF i # 0
    THEN [raised |-> FALSE, cause |-> "none", df |-> c[i].df,
          cache |-> CacheHit(c, i), queried |-> 0]
    ELSE IF r.raised
         THEN [raised |-> TRUE, cause |-> r.cause, exc |-> r.exc,
               cache |-> c, queried |-> 1]
         ELSE [raised |-> FALSE, cause |-> "none", df |-> r.df,
               cache |-> CacheInsert(c, key, r.df), queried |-> 1]

TitlePrefix == "Energy Consumption - "

\* str({org_id}): the f-string's else branch is a set display
SetDisplay(key) ==
    IF key.type = "str" THEN <<"{", "'", PathText(key.id), "'", "}">>
    ELSE <<"{", PathText(key.id), "}">>

\* f"Energy Consumption - {df['org_name'][0] if not df.empty else {org_id}}"
Title(df, key) ==
    IF df # <<>> THEN <<TitlePrefix, df[1].org_name>>
    ELSE <<TitlePrefix>> \o SetDisplay(key)

\* the try/except of a handler around get_db_data and the chart builder
Respond(endpoint, org, key, r, data) ==
    IF r.raised
    THEN [endpoint |-> endpoint, org |-> org, key |-> key, queried |-> r.queried,
          evicted |-> Keys(cache) \ Keys(r.cache),
          oldest |-> IF insertOrder = <<>> THEN NoRequest.key ELSE insertOrder[1],
          raised |-> TRUE, cause |-> r.cause,
          status |-> 400, detail |-> StrOfHTTPException(r.exc),
          title |-> <<>>, df |-> <<>>, data |-> {}]
    ELSE [endpoint |-> endpoint, org |-> org, key |-> key, queried |-> r.queried,
          evicted |-> Keys(cache) \ Keys(r.cache),
          oldest |-> IF insertOrder = <<>> THEN NoRequest.key ELSE insertOrder[1],
          raised |-> FALSE, cause |-> "none",
          status |-> 200, detail |-> <<>>,
          title |-> Title(r.df, key), df |-> r.df, data |-> data]

\* history of the cache: insertion order and order of last use of its keys
Without(s, key) == SelectSeq(s, LAMBDA k : k # key)
Kept(s, c) == SelectSeq(s, LAMBDA k : k \in Keys(c))

InsertOrderAfter(r, key) ==
    Kept(IF r.queried = 1 /\ ~r.raised THEN Append(insertOrder, key)
         ELSE insertOrder, r.cache)

UseOrderAfter(r, key) ==
    Kept(IF r.raised THEN useOrder ELSE Append(Without(useOrder, key), key),
         r.cache)

RowsOf(df) == { df[i] : i \in 1..Len(df) }

\* the body runs only in the calls that miss the cache
NotRunning == [raised |-> FALSE, cause |-> "none", df |-> <<>>]
OutcomesFor(c, key) == IF key \in Keys(c) THEN {NotRunning} ELSE Outcomes

\* GET /viz/energy/{org_id}
energy_consumption ==
    \E org \in OrgIds : \E body \in OutcomesFor(cache, StrKey(org)) :
        LET r == get_db_data(cache, StrKey(org), body) IN
        /\ cache' = r.cache
        /\ resp' = Respond("energy", org, StrKey(org), r,
                           IF r.raised THEN {} ELSE RowsOf(r.df))
        /\ insertOrder' = InsertOrderAfter(r, StrKey(org))
        /\ useOrder' = UseOrderAfter(r, StrKey(org))
        /\ UNCHANGED <<records, pc, table, daily>>

\* GET /viz/cost/{org_id}
energy_cost ==
    \E org \in OrgIds : \E body \in OutcomesFor(cache, StrKey(org)) :
        LET r == get_db_data(cache, StrKey(org), body) IN
        /\ cache' = r.cache
        /\ resp' = Respond("cost", org, StrKey(org), r,
                           IF r.raised THEN {} ELSE DailyCost(r.df))
        /\ insertOrder' = InsertOrderAfter(r, StrKey(org))
        /\ useOrder' = UseOrderAfter(r, StrKey(org))
        /\ UNCHANGED <<records, pc, table, daily>>

\* GET /viz/summary/{org_id}
energy_summary ==
    \E org \in OrgIds : \E body \in OutcomesFor(cache, IntKey(org)) :
        LET r == get_db_data(cache, IntKey(org), body) IN
        /\ cache' = r.cache
        /\ resp' = Respond("summary", org, IntKey(org), r,
                           IF r.raised THEN {} ELSE RowsOf(r.df))
        /\ insertOrder' = InsertOrderAfter(r, IntKey(org))
        /\ useOrder' = UseOrderAfter(r, IntKey(org))
        /\ UNCHANGED <<records, pc, table, daily>>

Init ==
    /\ cache = <<>>
    /\ insertOrder = <<>>
    /\ useOrder = <<>>
    /\ resp = NoRequest
    /\ records = <<>>
    /\ pc = "serving"
    /\ table = NotRun
    /\ daily = {}

Next == energy_consumption \/ energy_cost \/ energy_summary

Spec == Init /\ [][Next]_vars

\* ------------------------------------------------------------------ claims
\* indices of the fetched rows, by hour, by (day, source), by time
RowsInHour(h) == { k \in 1..Len(records) : HourOf(records[k].start_time) = h }
RowsOfDay(d, src) ==
    { k \in 1..Len(records) :
        DayOf(records[k].start_time) = d /\ records[k].source = src }
RowsUpTo(t) == { k \in 1..Len(records) : records[k].start_time <= t }

RECURSIVE Total(_, _)
Total(S, col) ==
    IF S = {} THEN 0
    ELSE LET k == CHOOSE x \in S : TRUE IN records[k][col] + Total(S \ {k}, col)

Resampled == pc # "fetched"

\* C1 as stated: an insertion into the full table removes the entry that was
\* inserted earliest among those present, however recently it was read.
C1_EvictsOldestInserted ==
    [][\A k \in Keys(cache) \ Keys(cache') : k = insertOrder[1]]_vars

\* C1 as amended: an insertion into the full table removes exactly one entry,
\* the one whose last use (insertion or hit) lies furthest back, and nothing
\* but such an insertion removes an entry.
C1_EvictsLeastRecentlyUsed ==
    [][LET gone == Keys(cache) \ Keys(cache') IN
       /\ gone # {} =>
             /\ gone = {useOrder[1]}
             /\ Len(cache) = maxsize
             /\ resp'.queried = 1 /\ ~resp'.raised
       /\ (Len(cache) = maxsize /\ resp'.key \notin Keys(cache) /\ ~resp'.raised) =>
             Keys(cache') = (Keys(cache) \ {useOrder[1]}) \cup {resp'.key}
      ]_vars

\* a miss on the full table has just removed an entry that was not the oldest
\* insertion, because the oldest had been read since
C1_Witness ==
    /\ resp.evicted # {}
    /\ resp.oldest \notin resp.evicted
    /\ resp.oldest \in Keys(cache)
    /\ Len(cache) = maxsize

\* C2: a store failure during a request reaches the caller as status 500 with
\* the detail "Database error: <detail>"; 400 is kept for other failures.
C2_StoreFailureIs500 ==
    /\ resp.cause = "store" =>
          /\ resp.status = 500
          /\ resp.detail = <<"Database error: ", "connection refused">>
    /\ resp.status = 400 => resp.cause # "store"

\* C3: a request for an organization whose table is stored, whichever endpoint
\* stored it, returns that stored table and does not query the store.
C3_SecondCallServedFromCache ==
    [][\A i \in 1..Len(cache) :
          cache[i].key.id = resp'.org =>
             /\ resp'.queried = 0
             /\ ~resp'.raised
             /\ resp'.df = cache[i].df]_vars

\* C4: for an organization without rows the table is empty, the status is 200
\* and the title is the prefix followed by the identifier as given in the path.
C4_EmptyTableTitledWithOrgId ==
    (resp.endpoint # "none" /\ ~resp.raised /\ resp.df = <<>>) =>
        /\ resp.status = 200
        /\ resp.title = <<TitlePrefix, PathText(resp.org)>>

\* C5: for every non-empty set of rows the resampler returns a table with
\* exactly one row per hour from the first row's hour to the last row's hour,
\* in ascending order.
C5_ContiguousHourIndex ==
    (Resampled /\ records # <<>>) =>
        /\ table.ok
        /\ Len(table.df) =
              HourOf(records[Len(records)].start_time) - HourOf(records[1].start_time) + 1
        /\ \A i \in 1..Len(table.df) :
              table.df[i].start_time =
                 HourStart(HourOf(records[1].start_time) + i - 1)

\* C6: every hour of the window from the hour of the first row on has a row
\* with energy, cost, source and organization name all set.
C6_WindowFullyPopulated ==
    (Resampled /\ records # <<>>) =>
        /\ table.ok
        /\ \A h \in HourOf(records[1].start_time)..HourOf(MaxTick) :
              \E i \in 1..Len(table.df) :
                 /\ table.df[i].start_time = HourStart(h)
                 /\ ~IsNaN(table.df[i].energy_kwh)
                 /\ ~IsNaN(table.df[i].cost)
                 /\ table.df[i].source # "NaN"
                 /\ table.df[i].org_name # "NaN"

\* C7: for every (day, source) of the fetched rows the cost endpoint plots the
\* sum of the cost values of the rows of that day and source.
C7_DailyCostIsSumOfCosts ==
    pc = "plotted" =>
        \A k \in 1..Len(records) :
           LET d == DayOf(records[k].start_time)
               src == records[k].source
           IN \E e \in daily :
                 /\ e.start_time = d
                 /\ e.source = src
                 /\ e.cost = Num(Total(RowsOfDay(d, src), "cost"))

\* C8: the source of the row of hour h is the source of the latest fetched row
\* at or before h, and is unset when no fetched row is at or before h.
C8_SourceIsLatestAtOrBefore ==
    (Resampled /\ table.ok) =>
        \A i \in 1..Len(table.df) :
           LET S == RowsUpTo(table.df[i].start_time) IN
           table.df[i].source =
              IF S = {} THEN "NaN"
              ELSE records[CHOOSE k \in S : \A j \in S : j <= k].source

C10_FailedCallLeavesCache ==
    [][/\ resp'.queried <= 1
       /\ resp'.raised => cache' = cache
       /\ (resp.raised /\ resp'.key = resp.key) => resp'.queried = 1]_vars

\* a call has just raised while the table was full
C10_Witness ==
    /\ resp.raised
    /\ resp.queried = 1
    /\ Len(cache) = maxsize

====
